---- MODULE Spec2Model ----
(***************************************************************************)
(* lnwire/local_nonces.go: the TLV value codec of LocalNoncesData, a map   *)
(* from a 32-byte TXID to a 66-byte Musig2Nonce.                           *)
(*                                                                         *)
(* Byte strings are sequences of naturals in 0..255.  A Go map is a        *)
(* record [isNil, m]: isNil tells a nil map from an allocated one and m is *)
(* the function from the keys to the values (the empty function for a nil  *)
(* map: len of a nil map is 0).                                            *)
(*                                                                         *)
(* Spec     models the codec on byte strings, on collections of at most    *)
(*          MaxEntries entries.                                            *)
(* SpecSize models the same code on the sizes alone (the number of         *)
(*          entries, the count field, the number of bytes), so that        *)
(*          collections beyond the range of the 16-bit count field are     *)
(*          reached.                                                       *)
(***************************************************************************)
EXTENDS Integers, Sequences, FiniteSets, TLC

VARIABLES
    NoncesMap,   \* lnd.NoncesMap of the LocalNoncesData the calls act on
    record,      \* the tlv.Record last made by lnd.Record()
    w,           \* the bytes the last encodeLocalNoncesData call wrote
    op,          \* the last operation
    order,       \* the order in which the last encode ranged over the map
    before,      \* lnd.NoncesMap when the last decode was called
    src,         \* the bytes behind the io.Reader of the last decode
    recordLen,   \* recordLen of the last decode
    err,         \* the error the last encode or decode returned
    consumed,    \* the bytes the last decode read from its io.Reader
    nEntries,    \* SpecSize: len(lnd.NoncesMap)
    recSize,     \* SpecSize: size of the record made by Record(), -1: none
    wCount,      \* SpecSize: the count field the last encode wrote
    wLen,        \* SpecSize: the number of bytes the last encode wrote
    encEntries,  \* SpecSize: len(lnd.NoncesMap) at the last encode
    sOp,         \* SpecSize: the last operation
    dLen,        \* SpecSize: recordLen of the last decode
    dErr,        \* SpecSize: the error of the last decode
    dRead        \* SpecSize: the bytes the last decode read

vars == <<NoncesMap, record, w, op, order, before, src, recordLen, err,
          consumed>>

sizeVars == <<nEntries, recSize, wCount, wLen, encEntries, sOp, dLen, dErr,
              dRead>>

allVars == <<vars, sizeVars>>

(***************************************************************************)
(* Sizes                                                                   *)
(***************************************************************************)

\* chainhash.HashSize
HashSize == 32

\* musig2.PubNonceSize
PubNonceSize == 66

\* the number of values of a uint16
Uint16Range == 65536

\* the largest collection Spec builds
MaxEntries == 2

(***************************************************************************)
(* Values                                                                  *)
(***************************************************************************)

makeTestTxId(val) == [i \in 1..HashSize |-> val]

makeTestNonce(val) == [i \in 1..PubNonceSize |-> val]

\* The ids of the model: TxA < TxB < TxC byte-lexicographically.  TxA and
\* TxB differ in their last byte only; TxC is greater in its first byte and
\* smaller in every other.
TxA == makeTestTxId(1)

TxB == [i \in 1..HashSize |-> IF i = HashSize THEN 2 ELSE 1]

TxC == [i \in 1..HashSize |-> IF i = 1 THEN 2 ELSE 0]

TXIDs == {TxA, TxB, TxC}

Nonces == {makeTestNonce(1), makeTestNonce(2)}

EmptyFcn == [x \in {} |-> <<>>]

NilMap == [isNil |-> TRUE, m |-> EmptyFcn]

makeMap == [isNil |-> FALSE, m |-> EmptyFcn]

NewLocalNoncesData == makeMap

lenMap(nm) == Cardinality(DOMAIN nm.m)

MapSet(m, k, v) == [x \in (DOMAIN m) \cup {k} |-> IF x = k THEN v ELSE m[x]]

MapDelete(m, k) == [x \in (DOMAIN m) \ {k} |-> m[x]]

(***************************************************************************)
(* encodeLocalNoncesData                                                   *)
(***************************************************************************)

LocalNonceEntry(txid, nonce) == [TXID |-> txid, Nonce |-> nonce]

\* The orders in which a range over a map with key set S may visit it.
Enumerations(S) ==
    {s \in [1..Cardinality(S) -> S] :
        \A i, j \in 1..Cardinality(S) : i # j => s[i] # s[j]}

\* for txid, nonce := range lnd.NoncesMap { append(...) }
rangeEntries(nm, ord) ==
    [i \in 1..Len(ord) |-> LocalNonceEntry(ord[i], nm.m[ord[i]])]

MinOf(S) == CHOOSE i \in S : \A j \in S : i <= j

\* bytes.Compare: -1, 0 or 1, lexicographic from the first byte
bytesCompare(a, b) ==
    LET n == IF Len(a) < Len(b) THEN Len(a) ELSE Len(b)
        D == {i \in 1..n : a[i] # b[i]}
    IN  IF D = {}
        THEN IF Len(a) < Len(b) THEN -1 ELSE IF Len(a) > Len(b) THEN 1 ELSE 0
        ELSE IF a[MinOf(D)] < b[MinOf(D)] THEN -1 ELSE 1

\* a less that compares the first byte of the ids only
lessFirstByte(x, y) == x.TXID[1] < y.TXID[1]

\* the less function handed to sort.Slice
less(x, y) == bytesCompare(x.TXID, y.TXID) < 0

Swap(s, i, j) ==
    [k \in 1..Len(s) |-> IF k = i THEN s[j] ELSE IF k = j THEN s[i] ELSE s[k]]

RECURSIVE insertDown(_, _)
insertDown(s, j) ==
    IF j > 1 /\ less(s[j], s[j - 1])
    THEN insertDown(Swap(s, j, j - 1), j - 1)
    ELSE s

RECURSIVE insertionSortFrom(_, _)
insertionSortFrom(s, i) ==
    IF i > Len(s) THEN s ELSE insertionSortFrom(insertDown(s, i), i + 1)

\* sort.Slice: an insertion sort on slices this short
sortSlice(s) == insertionSortFrom(s, 2)

\* uint16(n)
toUint16(n) == n % Uint16Range

\* binary.BigEndian.PutUint16
PutUint16(v) == <<(v \div 256) % 256, v % 256>>

\* binary.BigEndian.Uint16
Uint16(b) == b[1] * 256 + b[2]

writeEntry(entry) == entry.TXID \o entry.Nonce

RECURSIVE writeEntries(_)
writeEntries(s) ==
    IF s = <<>> THEN <<>> ELSE writeEntry(Head(s)) \o writeEntries(Tail(s))

\* The bytes encodeLocalNoncesData writes to a sink that takes every write
\* (a bytes.Buffer), ranging over the map in the order ord.
encodeLocalNoncesData(nm, ord) ==
    LET filled == ~nm.isNil /\ lenMap(nm) > 0
        sortedEntries == IF filled THEN sortSlice(rangeEntries(nm, ord))
                         ELSE <<>>
        numEntries == IF filled THEN toUint16(Len(sortedEntries)) ELSE 0
    IN  PutUint16(numEntries) \o writeEntries(sortedEntries)

(***************************************************************************)
(* decodeLocalNoncesData                                                   *)
(***************************************************************************)

\* io.ReadFull(r, buf) with len(buf) = n on a reader holding s, pos bytes of
\* it already read: all n bytes, or an error once what is left has been
\* taken (io.EOF when nothing was left, io.ErrUnexpectedEOF otherwise).
ReadFull(s, pos, n) ==
    IF Len(s) - pos >= n
    THEN [err |-> "nil", data |-> SubSeq(s, pos + 1, pos + n), pos |-> pos + n]
    ELSE IF Len(s) - pos <= 0
         THEN [err |-> "EOF", data |-> <<>>, pos |-> pos]
         ELSE [err |-> "ErrUnexpectedEOF", data |-> <<>>, pos |-> Len(s)]

\* a check that lets a recordLen of 1 through
tooShortBelowOne(rl) == rl < 1

\* if recordLen < 2
tooShort(rl) == rl < 2

\* a check that takes a recordLen of 1 for an empty value
emptyValueUpToOne(rl) == rl <= 1

\* if recordLen == 0
emptyValue(rl) == rl = 0

\* expectedTotalRecordLength
expectedTotalRecordLength(numEntries) ==
    2 + numEntries * (HashSize + PubNonceSize)

\* a check that rejects only a recordLen below the expected one
lengthMismatchWhenShorter(rl, expected) == rl < expected

\* if recordLen != expectedTotalRecordLength
lengthMismatch(rl, expected) == rl # expected

\* a decode that leaves the previous entries in place
keepMap(nm) == nm

\* if len(lnd.NoncesMap) > 0 { lnd.NoncesMap = make(...) }
clearMap(nm) == IF lenMap(nm) > 0 THEN makeMap ELSE nm

\* a loop that stops one entry early
loopBoundOneLess(numEntries) == numEntries - 1

\* the bound of for i := uint16(0); i < numEntries; i++
loopBound(numEntries) == numEntries

\* The loop over the entries, from its i-th round on: m is lnd.NoncesMap.m and
\* pos the number of bytes read so far.
RECURSIVE readEntries(_, _, _, _, _)
readEntries(s, pos, m, i, numEntries) ==
    IF ~(i < loopBound(numEntries))
    THEN [err |-> "nil", NoncesMap |-> [isNil |-> FALSE, m |-> m],
          consumed |-> pos]
    ELSE LET rt == ReadFull(s, pos, HashSize)
             rn == ReadFull(s, rt.pos, PubNonceSize)
         IN  IF rt.err # "nil"
             THEN [err |-> rt.err, NoncesMap |-> [isNil |-> FALSE, m |-> m],
                   consumed |-> rt.pos]
             ELSE IF rn.err # "nil"
             THEN [err |-> rn.err, NoncesMap |-> [isNil |-> FALSE, m |-> m],
                   consumed |-> rn.pos]
             ELSE readEntries(s, rn.pos, MapSet(m, rt.data, rn.data), i + 1,
                              numEntries)

\* decodeLocalNoncesData on a reader holding s, into a LocalNoncesData whose
\* map is nm: the error returned, the map left in it and the bytes read.
decodeLocalNoncesData(s, nm, rl) ==
    LET nm1 == IF nm.isNil THEN makeMap ELSE nm
        rc == ReadFull(s, 0, 2)
        numEntries == Uint16(rc.data)
    IN  IF tooShort(rl)
        THEN IF emptyValue(rl)
             THEN [err |-> "nil", NoncesMap |-> clearMap(nm1), consumed |-> 0]
             ELSE [err |-> "TooShort", NoncesMap |-> nm1, consumed |-> 0]
        ELSE IF rc.err # "nil"
        THEN [err |-> rc.err, NoncesMap |-> nm1, consumed |-> rc.pos]
        ELSE IF lengthMismatch(rl, expectedTotalRecordLength(numEntries))
        THEN [err |-> "LengthMismatch", NoncesMap |-> nm1,
              consumed |-> rc.pos]
        ELSE IF numEntries = 0
        THEN [err |-> "nil", NoncesMap |-> clearMap(nm1), consumed |-> rc.pos]
        ELSE readEntries(s, rc.pos, EmptyFcn, 0, numEntries)

(***************************************************************************)
(* LocalNoncesData.Record                                                  *)
(***************************************************************************)

\* made: Record() was called; size: the size it handed to
\* tlv.MakeStaticRecord; decoded: a decode has run on the collection since.
NoRecord == [made |-> FALSE, size |-> 0, decoded |-> FALSE]

\* The function literal of Record() is called on the spot: its result, not
\* the function, is the size handed to tlv.MakeStaticRecord.
recordSize(nm) ==
    IF nm.isNil \/ lenMap(nm) = 0
    THEN 2
    ELSE 2 + lenMap(nm) * (HashSize + PubNonceSize)

(***************************************************************************)
(* Spec: the calls on one LocalNoncesData                                  *)
(***************************************************************************)

Zeros(n) == [i \in 1..n |-> 0]

\* A stream of two entries with the same id and different nonces.
DupStream ==
    PutUint16(2) \o TxA \o makeTestNonce(1) \o TxA \o makeTestNonce(2)

\* The (value bytes, length) pairs of TestLocalNoncesDataDecodeFailuresValue,
\* and the stream with a repeated id.
CraftedCases ==
    { <<<<1>>, 1>>,
      <<<<0, 1>>, 2>>,
      <<<<0, 1>> \o Zeros(HashSize + PubNonceSize), 101>>,
      <<<<0, 1>> \o Zeros(10), 12>>,
      <<<<0, 0, 255>>, 3>>,
      <<<<0, 0>>, 2>>,
      <<<<>>, 0>>,
      <<<<>>, 2>>,
      <<DupStream, Len(DupStream)>> }

\* Where a stream is cut short: in the count field, in the first id, in the
\* first nonce, after the first entry, in the second id.
CutPoints ==
    {1, 2 + 10, 2 + HashSize + 10, 2 + HashSize + PubNonceSize,
     2 + HashSize + PubNonceSize + 10}

\* The (value bytes, length) pairs made from the bytes b of the last encode:
\* b itself with its length, with the lengths 0 and 1 and with a length one
\* too large, and b cut short under its full length.
EncodedCases(b) ==
    IF b = <<>> THEN {}
    ELSE { <<b, Len(b)>>, <<b, 0>>, <<b, 1>>, <<b, Len(b) + 1>> }
         \cup { <<SubSeq(b, 1, k), Len(b)>> : k \in {c \in CutPoints : c < Len(b)} }

Init ==
    /\ NoncesMap \in {NilMap, NewLocalNoncesData}
    /\ record = NoRecord
    /\ w = <<>>
    /\ op = "init"
    /\ order = <<>>
    /\ before = NilMap
    /\ src = <<>>
    /\ recordLen = 0
    /\ err = "nil"
    /\ consumed = 0
    /\ nEntries = 0
    /\ recSize = -1
    /\ wCount = 0
    /\ wLen = 0
    /\ encEntries = 0
    /\ sOp = "init"
    /\ dLen = 0
    /\ dErr = "nil"
    /\ dRead = 0

NoCall ==
    /\ order' = <<>>
    /\ before' = NilMap
    /\ src' = <<>>
    /\ recordLen' = 0
    /\ err' = "nil"
    /\ consumed' = 0

\* the caller: lnd.NoncesMap[txid] = nonce
Insert(txid, nonce) ==
    /\ ~NoncesMap.isNil
    /\ Cardinality(DOMAIN NoncesMap.m \cup {txid}) <= MaxEntries
    /\ NoncesMap' = [NoncesMap EXCEPT !.m = MapSet(@, txid, nonce)]
    /\ op' = "insert"
    /\ NoCall
    /\ UNCHANGED <<record, w, sizeVars>>

\* the caller: delete(lnd.NoncesMap, txid)
Remove(txid) ==
    /\ txid \in DOMAIN NoncesMap.m
    /\ NoncesMap' = [NoncesMap EXCEPT !.m = MapDelete(@, txid)]
    /\ op' = "remove"
    /\ NoCall
    /\ UNCHANGED <<record, w, sizeVars>>

\* lnd.Record()
Record ==
    /\ record' = [made |-> TRUE, size |-> recordSize(NoncesMap),
                  decoded |-> FALSE]
    /\ op' = "record"
    /\ NoCall
    /\ UNCHANGED <<NoncesMap, w, sizeVars>>

\* encodeLocalNoncesData(&b, lnd, &buf) into an empty buffer
Encode(ord) ==
    /\ w' = encodeLocalNoncesData(NoncesMap, ord)
    /\ op' = "encode"
    /\ order' = ord
    /\ err' = "nil"
    /\ before' = NilMap
    /\ src' = <<>>
    /\ recordLen' = 0
    /\ consumed' = 0
    /\ UNCHANGED <<NoncesMap, record, sizeVars>>

\* decodeLocalNoncesData(bytes.NewReader(s), lnd, &buf, rl)
Decode(s, rl) ==
    LET res == decodeLocalNoncesData(s, NoncesMap, rl)
    IN  /\ NoncesMap' = res.NoncesMap
        /\ err' = res.err
        /\ consumed' = res.consumed
        /\ before' = NoncesMap
        /\ src' = s
        /\ recordLen' = rl
        /\ op' = "decode"
        /\ order' = <<>>
        /\ record' = [record EXCEPT !.decoded = record.made]
        /\ UNCHANGED <<w, sizeVars>>

Next ==
    \/ \E txid \in TXIDs, nonce \in Nonces : Insert(txid, nonce)
    \/ \E txid \in TXIDs : Remove(txid)
    \/ Record
    \/ \E ord \in Enumerations(DOMAIN NoncesMap.m) : Encode(ord)
    \/ \E c \in CraftedCases \cup EncodedCases(w) : Decode(c[1], c[2])

Spec == Init /\ [][Next]_allVars

(***************************************************************************)
(* SpecSize: the same code on the sizes alone                              *)
(*                                                                         *)
(* The count field, the number of bytes written and the length check of    *)
(* the decoder depend on the collection only through its number of         *)
(* entries.  SpecSize keeps that number in place of the entries, and the   *)
(* encoded stream as its count field and its length, and so reaches        *)
(* collections of Uint16Range entries and more.  The byte-level variables  *)
(* keep their initial values and are not read.                             *)
(***************************************************************************)

\* The numbers of entries SpecSize puts in the collection: the small ones,
\* and those around the range of the count field.
SizeCases == (0..MaxEntries) \cup ((Uint16Range - 1)..(Uint16Range + MaxEntries))

\* Record(): the size of the record of a collection of n entries
recordSizeOfLen(n) ==
    IF n = 0 THEN 2 ELSE 2 + n * (HashSize + PubNonceSize)

\* encodeLocalNoncesData: the count field written for n entries
encodeNumEntries(n) == IF n > 0 THEN toUint16(n) ELSE 0

\* encodeLocalNoncesData: the bytes written for n entries, the count field
\* and then every entry of sortedEntries
encodeLen(n) == 2 + n * (HashSize + PubNonceSize)

\* decodeLocalNoncesData, with recordLen rl, into a collection of n0 entries,
\* of a stream of avail bytes that starts with the count field count and
\* whose entries have distinct ids: the error, the entries left in the
\* collection and the bytes read.
decodeSizes(count, avail, n0, rl) ==
    LET whole == (avail - 2) \div (HashSize + PubNonceSize)
    IN  IF tooShort(rl)
        THEN IF emptyValue(rl)
             THEN [err |-> "nil", n |-> 0, read |-> 0]
             ELSE [err |-> "TooShort", n |-> n0, read |-> 0]
        ELSE IF avail < 2
        THEN [err |-> IF avail = 0 THEN "EOF" ELSE "ErrUnexpectedEOF",
              n |-> n0, read |-> avail]
        ELSE IF lengthMismatch(rl, expectedTotalRecordLength(count))
        THEN [err |-> "LengthMismatch", n |-> n0, read |-> 2]
        ELSE IF count = 0
        THEN [err |-> "nil", n |-> 0, read |-> 2]
        ELSE IF whole >= count
        THEN [err |-> "nil", n |-> count, read |-> expectedTotalRecordLength(count)]
        ELSE [err |-> IF avail = expectedTotalRecordLength(whole)
                      THEN "EOF" ELSE "ErrUnexpectedEOF",
              n |-> whole, read |-> avail]

\* the caller: insertions into and removals from lnd.NoncesMap that leave it
\* with n entries
Fill(n) ==
    /\ n # nEntries
    /\ nEntries' = n
    /\ sOp' = "fill"
    /\ dLen' = 0
    /\ dErr' = "nil"
    /\ dRead' = 0
    /\ UNCHANGED <<recSize, wCount, wLen, encEntries, vars>>

\* lnd.Record()
RecordSz ==
    /\ recSize' = recordSizeOfLen(nEntries)
    /\ sOp' = "record"
    /\ dLen' = 0
    /\ dErr' = "nil"
    /\ dRead' = 0
    /\ UNCHANGED <<nEntries, wCount, wLen, encEntries, vars>>

\* encodeLocalNoncesData(&b, lnd, &buf) into an empty buffer
EncodeSz ==
    /\ wCount' = encodeNumEntries(nEntries)
    /\ wLen' = encodeLen(nEntries)
    /\ encEntries' = nEntries
    /\ sOp' = "encode"
    /\ dLen' = 0
    /\ dErr' = "nil"
    /\ dRead' = 0
    /\ UNCHANGED <<nEntries, recSize, vars>>

\* decodeLocalNoncesData(bytes.NewReader(b.Bytes()), lnd, &buf, rl) on the
\* bytes of the last encode
DecodeSz(rl) ==
    LET res == decodeSizes(wCount, wLen, nEntries, rl)
    IN  /\ wLen >= 2
        /\ nEntries' = res.n
        /\ dErr' = res.err
        /\ dRead' = res.read
        /\ dLen' = rl
        /\ sOp' = "decode"
        /\ UNCHANGED <<recSize, wCount, wLen, encEntries, vars>>

NextSize ==
    \/ \E n \in SizeCases : Fill(n)
    \/ RecordSz
    \/ EncodeSz
    \/ \E rl \in {wLen, 0, 1, wLen + 1} : DecodeSz(rl)

SpecSize == Init /\ [][NextSize]_allVars

(***************************************************************************)
(* Properties                                                              *)
(***************************************************************************)

EntrySize == HashSize + PubNonceSize

\* The id and the nonce of the i-th entry of a stream, by their offsets.
EntryId(b, i) ==
    SubSeq(b, 2 + (i - 1) * EntrySize + 1, 2 + (i - 1) * EntrySize + HashSize)

EntryNonce(b, i) ==
    SubSeq(b, 2 + (i - 1) * EntrySize + HashSize + 1, 2 + i * EntrySize)

CountField(b) == b[1] * 256 + b[2]

\* a before b, byte-lexicographically, most significant byte first
LexLess(a, b) ==
    \E i \in 1..Len(a) : a[i] < b[i] /\ \A j \in 1..(i - 1) : a[j] = b[j]

MaxOf(S) == CHOOSE i \in S : \A j \in S : j <= i

\* The entries a stream of c entries holds, a later entry replacing an
\* earlier one of the same id.
StreamEntries(b, c) ==
    [id \in {EntryId(b, i) : i \in 1..c} |->
        EntryNonce(b, MaxOf({i \in 1..c : EntryId(b, i) = id}))]

\* C1 (size form): decoding exactly the bytes encode wrote, with recordLen
\* the number of bytes written, succeeds and leaves as many entries as the
\* encoded collection held.
RoundTrip ==
    (sOp = "decode" /\ dLen = wLen) => (dErr = "nil" /\ nEntries = encEntries)

\* The round trip on byte strings, for the collections of Spec (which stay
\* within the range of the count field): decoding the bytes of an encode
\* under their length succeeds, and the destination then encodes to the
\* same bytes.
RoundTripWithinCountRange ==
    (op = "decode" /\ src = w /\ recordLen = Len(w) /\ w # <<>>)
        => /\ err = "nil"
           /\ \E ord \in Enumerations(DOMAIN NoncesMap.m) :
                  encodeLocalNoncesData(NoncesMap, ord) = w
           /\ Len(w) = 2 + lenMap(NoncesMap) * EntrySize

\* C2: the bytes encode writes are the same for every order of the range
\* over the map, and hold the entries in strictly ascending
\* byte-lexicographic order of id, each id followed by its own nonce.
CanonicalEncoding ==
    op = "encode" =>
        /\ \A ord \in Enumerations(DOMAIN NoncesMap.m) :
               encodeLocalNoncesData(NoncesMap, ord) = w
        /\ Len(w) = 2 + lenMap(NoncesMap) * EntrySize
        /\ \A i \in 1..lenMap(NoncesMap) :
               /\ EntryId(w, i) \in DOMAIN NoncesMap.m
               /\ EntryNonce(w, i) = NoncesMap.m[EntryId(w, i)]
        /\ \A i \in 1..(lenMap(NoncesMap) - 1) :
               LexLess(EntryId(w, i), EntryId(w, i + 1))

\* An encode of two or more entries that ranged over them out of order.
CanonicalEncodingWitness ==
    /\ op = "encode"
    /\ Len(order) >= 2
    /\ LexLess(order[2], order[1])
    /\ NoncesMap.m[order[1]] # NoncesMap.m[order[2]]

\* C3: a decode that returns an error leaves the destination with the
\* entries it held before the call.
DecodeFailureLeavesDestination ==
    (op = "decode" /\ err # "nil") => NoncesMap.m = before.m

\* C4: with recordLen >= 2 and a count field read, a recordLen other than
\* 2 + count * 98 fails with the length mismatch error, with the two bytes
\* of the count field read and no more.
LengthValidation ==
    (/\ op = "decode"
     /\ recordLen >= 2
     /\ Len(src) >= 2
     /\ recordLen # 2 + CountField(src) * 98)
        => (err = "LengthMismatch" /\ consumed = 2)

\* A count field of 1 under a recordLen of 101, rejected.
LengthValidationWitness ==
    /\ op = "decode"
    /\ Len(src) >= 2
    /\ CountField(src) = 1
    /\ recordLen = 101
    /\ err = "LengthMismatch"

\* C5: after a successful decode the destination holds exactly the entries
\* of the stream, and none it held before that the stream does not hold.
DecodeReplacesWholesale ==
    (op = "decode" /\ err = "nil") =>
        LET decoded == IF recordLen = 0 THEN EmptyFcn
                       ELSE StreamEntries(src, CountField(src))
        IN  /\ ~NoncesMap.isNil
            /\ NoncesMap.m = decoded
            /\ \A id \in DOMAIN before.m :
                   id \notin DOMAIN decoded => id \notin DOMAIN NoncesMap.m

\* A destination that held entries, empty after a successful decode.
DecodeReplacesWholesaleWitness ==
    /\ op = "decode"
    /\ err = "nil"
    /\ lenMap(before) > 0
    /\ lenMap(NoncesMap) = 0

\* C6, as claimed: a successful decode with a count field of c leaves
\* exactly c entries.
DecodedCountMatchesWire ==
    (op = "decode" /\ err = "nil" /\ recordLen >= 2)
        => lenMap(NoncesMap) = CountField(src)

\* C6, amended: a successful decode with a count field of c leaves as many
\* entries as the c entries of the stream, all of them present in it, have
\* distinct ids, which is c when no id repeats and less when one does.
DecodedCountMatchesDistinctIds ==
    (op = "decode" /\ err = "nil" /\ recordLen >= 2) =>
        LET c == CountField(src)
            ids == {EntryId(src, i) : i \in 1..c}
        IN  /\ Len(src) >= 2 + c * EntrySize
            /\ lenMap(NoncesMap) = Cardinality(ids)
            /\ lenMap(NoncesMap) <= c
            /\ (\A i, j \in 1..c : i # j => EntryId(src, i) # EntryId(src, j))
                   => lenMap(NoncesMap) = c

\* A successful decode of a stream whose two entries have the same id.
DecodedCountWitness ==
    /\ op = "decode"
    /\ err = "nil"
    /\ src = DupStream
    /\ CountField(src) = 2
    /\ lenMap(NoncesMap) = 1

\* C7: the bytes encode writes for n entries start with a count field of n
\* and are 2 + count * 98 long.
EncodedLengthAgreesWithCount ==
    sOp = "encode" =>
        (wCount = encEntries /\ wLen = 2 + wCount * 98)

\* C8: a decode reads at most recordLen bytes: none when recordLen is 0 or 1,
\* at most 2 when it fails with a length mismatch, and exactly recordLen when
\* it succeeds with recordLen >= 2.
NeverReadsPastDeclaredLength ==
    op = "decode" =>
        /\ consumed <= recordLen
        /\ (recordLen \in {0, 1} => consumed = 0)
        /\ (err = "LengthMismatch" => consumed <= 2)
        /\ (err = "nil" /\ recordLen >= 2 => consumed = recordLen)

\* A successful decode of at least one entry, and a failed one that stopped
\* inside an entry, are both decodes the claim covers; this is the first.
NeverReadsPastWitness ==
    /\ op = "decode"
    /\ err = "nil"
    /\ recordLen >= 2 + EntrySize
    /\ consumed = recordLen

\* C9: recordLen = 1 fails with the too-short error whatever the source
\* holds, recordLen = 0 succeeds with an empty collection, and neither reads
\* the count field.
TooShortInput ==
    op = "decode" =>
        /\ recordLen = 1 => (err = "TooShort" /\ consumed = 0)
        /\ recordLen = 0 =>
               (err = "nil" /\ lenMap(NoncesMap) = 0 /\ consumed = 0)

\* A decode with recordLen = 1 of a source that holds a whole count field.
TooShortInputWitness ==
    /\ op = "decode"
    /\ recordLen = 1
    /\ Len(src) >= 2
    /\ err = "TooShort"

\* C10: the length of the record made by Record() is the number of bytes
\* the encoder writes for the collection as it is when encoded, whatever
\* was inserted or removed since Record().
RecordLengthAgreesWithEncode ==
    (op = "encode" /\ record.made /\ ~record.decoded) => record.size = Len(w)

====
